---- MODULE Spec2Model ----
(***************************************************************************)
(* Model of scripts/spot_perp_arb.py: the SpotPerpArb script strategy.     *)
(*                                                                         *)
(* The strategy is driven by two kinds of entry points that never overlap: *)
(* the clock's on_tick and the connector event callbacks                   *)
(* (did_complete_buy_order, did_complete_sell_order,                       *)
(* did_change_position_mode_succeed, did_change_position_mode_fail).       *)
(* Every action below is one whole call of one entry point.                *)
(*                                                                         *)
(* Units.  Prices are integers counted in price steps of 0.0005 quote      *)
(* (2000 = 1.0000, 2004 = 1.0020, 2005 = 1.0025).  Amounts of quote money  *)
(* (a price with slippage, a required capital, a balance) are counted in   *)
(* 1/10000 of a price step, so that price * (1 +- bps/10000) is an         *)
(* integer.  Base asset balances are counted in units of the base asset.   *)
(***************************************************************************)
EXTENDS Integers, Sequences, FiniteSets

VARIABLES
    is_position_mode_ready,     \* class attribute read by on_tick (line 40, 74)
    position_mode_ready_attr,   \* attribute _position_mode_ready written at line 396
    strategy_state,             \* line 48
    completed_order_ids,        \* line 49
    next_arbitrage_opening_ts,  \* line 51
    in_flight_state_start_ts,   \* line 53
    opened_state_start_ts,      \* line 55
    last_submit_order_ts,       \* lines 226, 297 (unset until the first submission)
    current_timestamp,          \* the clock time of the latest tick
    market,                     \* prices and balances the connectors gave the latest tick
    next_order_id,              \* the venue gateway: id the next submitted order gets
    legs,                       \* the venue gateway: the orders of the latest submission
    tick_log,                   \* what the latest on_tick call did
    reports_faithful            \* so far every completion event was the first report
                                \* of a leg of the submission in flight

vars == << is_position_mode_ready, position_mode_ready_attr, strategy_state,
           completed_order_ids, next_arbitrage_opening_ts,
           in_flight_state_start_ts, opened_state_start_ts, last_submit_order_ts,
           current_timestamp, market, next_order_id, legs, tick_log,
           reports_faithful >>

\* ------------------------------------------------------------------ bounds
MaxTime == 4
MaxOrders == 6
MaxCompleted == 3
MaxSlowTime == 183

\* ------------------------------------------------------- program constants
base_order_amount == 100
buy_spot_short_perp_profit_margin_bps == 20
sell_spot_long_perp_profit_margin_bps == 20
slippage_buffer_bps == 5
next_arbitrage_opening_delay == 5
in_flight_state_tolerance == 60
opened_state_tolerance == 7200

spot_connector == "kucoin"
perp_connector == "kucoin_perpetual"

\* basis points in one (the literal 10000 of lines 158, 232, 305, 307)
BpsOne == 10000

\* StrategyState, lines 16-20
Closed == "Closed"
Opening == "Opening"
Opened == "Opened"
Closing == "Closing"
StrategyState == {Closed, Opening, Opened, Closing}

Unset == -1
ForeignOrderId == 0

\* ------------------------------------------------------------ environment
\* One reading of the two connectors: the four limit taker prices for the
\* fixed order size and the three available balances.
Mk(sb, ss, pb, ps, sq, sbase, pq) ==
    [spot_buy |-> sb, spot_sell |-> ss, perp_buy |-> pb, perp_sell |-> ps,
     spot_quote |-> sq, spot_base |-> sbase, perp_quote |-> pq]

Rich == 21 * 10000 * 10000
Poor == 2000 * 10000 * 100 - 1

Markets ==
    { Mk(2000, 2000, 2000, 2005, Rich, 100, Rich),  \* buy-spot-short-perp at 25 bps
      Mk(2000, 2000, 2000, 2004, Rich, 100, Rich),  \* buy-spot-short-perp at 20 bps
      Mk(2000, 2000, 2000, 2005, Rich, 100, Poor),  \* 25 bps, perp balance short
      Mk(2005, 2005, 2000, 2000, Rich, 100, Rich),  \* sell-spot-long-perp at 25 bps
      Mk(2000, 2005, 2000, 2005, Rich, 100, Rich),  \* both directions at 25 bps
      Mk(2000, 2000, 2000, 2000, Rich, 100, Rich),  \* flat market
      Mk(0, 2000, 2000, 2005, Rich, 100, Rich) }    \* spot buy price read gives 0

NoMarket == Mk(0, 0, 0, 0, 0, 0, 0)

\* The readings of the runs under the slow clock; they add the sell direction
\* at exactly its margin and a reading where both directions exceed their
\* margins while the spot quote balance is short of the buy requirement.
SlowClockMarkets ==
    { Mk(2000, 2000, 2000, 2005, Rich, 100, Rich),  \* buy-spot-short-perp at 25 bps
      Mk(2000, 2000, 2000, 2004, Rich, 100, Rich),  \* the same at exactly 20 bps
      Mk(2004, 2004, 2000, 2000, Rich, 100, Rich),  \* sell-spot-long-perp at exactly 20 bps
      Mk(2000, 2000, 2000, 2000, Rich, 100, Rich),  \* flat market
      Mk(2000, 2005, 2000, 2005, Poor, 100, Rich) } \* both at 25 bps, spot quote short

\* ------------------------------------------------------- prices, balances
\* limit_taker_price, lines 311-315
limit_taker_price(m, connector_name, is_buy) ==
    IF connector_name = spot_connector
    THEN (IF is_buy THEN m.spot_buy ELSE m.spot_sell)
    ELSE (IF is_buy THEN m.perp_buy ELSE m.perp_sell)

\* limit_taker_price_with_slippage, lines 300-309 (result in 1/10000 price steps)
limit_taker_price_with_slippage(m, connector_name, is_buy) ==
    limit_taker_price(m, connector_name, is_buy)
        * (IF is_buy THEN BpsOne + slippage_buffer_bps ELSE BpsOne - slippage_buffer_bps)

\* get_balance, lines 317-324
get_balance(m, connector_name, is_base) ==
    IF connector_name = perp_connector THEN m.perp_quote
    ELSE IF is_base THEN m.spot_base ELSE m.spot_quote

\* ------------------------------------------------------------- detector
\* The division of line 158 raises when the spot buy price is zero.
should_buy_spot_short_perp_raises(m) ==
    limit_taker_price(m, spot_connector, TRUE) = 0

\* should_buy_spot_short_perp with a strict comparison
should_buy_spot_short_perp_Strict(m) ==
    /\ m.spot_buy > 0
    /\ (m.perp_sell - m.spot_buy) * BpsOne
           > buy_spot_short_perp_profit_margin_bps * m.spot_buy

\* should_buy_spot_short_perp, lines 155-160, for a non-zero spot buy price:
\* (perp_sell - spot_buy) / spot_buy * 10000 >= margin
should_buy_spot_short_perp(m) ==
    LET spot_buy_price == limit_taker_price(m, spot_connector, TRUE)
        perp_sell_price == limit_taker_price(m, perp_connector, FALSE)
    IN  IF spot_buy_price > 0
        THEN (perp_sell_price - spot_buy_price) * BpsOne
                 >= buy_spot_short_perp_profit_margin_bps * spot_buy_price
        ELSE (perp_sell_price - spot_buy_price) * BpsOne
                 <= buy_spot_short_perp_profit_margin_bps * spot_buy_price

\* The division of line 232 raises when the perp buy price is zero.
should_sell_spot_long_perp_raises(m) ==
    limit_taker_price(m, perp_connector, TRUE) = 0

\* should_sell_spot_long_perp with the spread taken over the spot sell price
should_sell_spot_long_perp_OverSpotPrice(m) ==
    /\ m.spot_sell > 0
    /\ (m.spot_sell - m.perp_buy) * BpsOne
           >= sell_spot_long_perp_profit_margin_bps * m.spot_sell

\* should_sell_spot_long_perp, lines 229-234
should_sell_spot_long_perp(m) ==
    LET spot_sell_price == limit_taker_price(m, spot_connector, FALSE)
        perp_buy_price == limit_taker_price(m, perp_connector, TRUE)
    IN  IF perp_buy_price > 0
        THEN (spot_sell_price - perp_buy_price) * BpsOne
                 >= sell_spot_long_perp_profit_margin_bps * perp_buy_price
        ELSE (spot_sell_price - perp_buy_price) * BpsOne
                 <= sell_spot_long_perp_profit_margin_bps * perp_buy_price

\* ---------------------------------------------------------- feasibility
\* can_buy_spot_short_perp, lines 163-189
can_buy_spot_short_perp(m) ==
    LET spot_required ==
            limit_taker_price_with_slippage(m, spot_connector, TRUE) * base_order_amount
        perp_required ==
            limit_taker_price(m, perp_connector, FALSE) * BpsOne * base_order_amount
    IN  /\ get_balance(m, spot_connector, FALSE) >= spot_required
        /\ get_balance(m, perp_connector, FALSE) >= perp_required

\* can_sell_spot_long_perp, lines 236-261
can_sell_spot_long_perp(m) ==
    LET spot_required == base_order_amount
        perp_required ==
            limit_taker_price(m, perp_connector, TRUE) * BpsOne * base_order_amount
    IN  /\ get_balance(m, spot_connector, TRUE) >= spot_required
        /\ get_balance(m, perp_connector, FALSE) >= perp_required

\* ------------------------------------------------------- state machine
\* The strategy's own fields, as one record the steps of on_tick pass along.
Self ==
    [strategy_state |-> strategy_state,
     completed_order_ids |-> completed_order_ids,
     next_arbitrage_opening_ts |-> next_arbitrage_opening_ts,
     in_flight_state_start_ts |-> in_flight_state_start_ts,
     opened_state_start_ts |-> opened_state_start_ts,
     last_submit_order_ts |-> last_submit_order_ts]

\* The number of completions that ends an in-flight state (lines 120, 131)
BothLegsCompleted(ids) == Len(ids) = 2

\* The cooldown set on Closing -> Closed, lines 134-136
ReopenAfter(s, now) == now + s.next_arbitrage_opening_ts

\* update_in_flight_state with both branches moving to Opened
update_in_flight_state_BothToOpened(s, now) ==
    IF s.strategy_state \in {Opening, Closing} /\ Len(s.completed_order_ids) = 2
    THEN [s EXCEPT !.strategy_state = Opened,
                   !.completed_order_ids = << >>,
                   !.opened_state_start_ts = now]
    ELSE s

\* update_in_flight_state taking the hedge start from the in-flight start
update_in_flight_state_StaleHedgeStart(s, now) ==
    IF s.strategy_state = Opening /\ Len(s.completed_order_ids) = 2
    THEN [s EXCEPT !.strategy_state = Opened,
                   !.completed_order_ids = << >>,
                   !.opened_state_start_ts = s.in_flight_state_start_ts]
    ELSE IF s.strategy_state = Closing /\ Len(s.completed_order_ids) = 2
    THEN [s EXCEPT !.strategy_state = Closed,
                   !.next_arbitrage_opening_ts = now + s.next_arbitrage_opening_ts,
                   !.completed_order_ids = << >>]
    ELSE s

\* update_in_flight_state, lines 117-143
update_in_flight_state(s, now) ==
    IF s.strategy_state = Opening /\ BothLegsCompleted(s.completed_order_ids)
    THEN [s EXCEPT !.strategy_state = Opened,
                   !.completed_order_ids = << >>,
                   !.opened_state_start_ts = now]
    ELSE IF s.strategy_state = Closing /\ BothLegsCompleted(s.completed_order_ids)
    THEN [s EXCEPT !.strategy_state = Closed,
                   !.next_arbitrage_opening_ts = ReopenAfter(s, now),
                   !.completed_order_ids = << >>]
    ELSE s

\* update_static_state without its second branch
update_static_state_OnlyOpens(s, now) ==
    [s EXCEPT !.strategy_state =
                  IF s.strategy_state = Closed THEN Opening ELSE s.strategy_state,
              !.in_flight_state_start_ts = now]

\* update_static_state, lines 145-153
update_static_state(s, now) ==
    [s EXCEPT !.strategy_state =
                  IF s.strategy_state = Closed THEN Opening
                  ELSE IF s.strategy_state = Opened THEN Closing
                  ELSE s.strategy_state,
              !.in_flight_state_start_ts = now]

\* the test of line 79 forgetting Opening
IsInFlight_OnlyClosing(state) == state = Closing

\* the test of line 79
IsInFlight(state) == state \in {Opening, Closing}

\* the test of lines 91-94
InReopenCooldown(s, now) ==
    s.strategy_state = Closed /\ now < s.next_arbitrage_opening_ts

InFlightTooLong_AtTolerance(s, now) ==
    now >= s.in_flight_state_start_ts + in_flight_state_tolerance

\* the test of lines 80-83
InFlightTooLong(s, now) ==
    now > s.in_flight_state_start_ts + in_flight_state_tolerance

\* the test of lines 98-102
OpenedTooLong(s, now) ==
    s.strategy_state = Opened /\ now > s.opened_state_start_ts + opened_state_tolerance

\* ------------------------------------------------------------ submission
Order(id, connector_name, is_buy, price, position_action) ==
    [order_id |-> id, connector |-> connector_name, is_buy |-> is_buy,
     price |-> price, position_action |-> position_action]

\* lines 210-212 and 270-272: the position action of the perpetual leg
PositionActionOf(is_in_opposite_side) ==
    IF is_in_opposite_side THEN "CLOSE" ELSE "OPEN"

\* buy_spot_short_perp, lines 192-227: the orders it submits, in order
buy_spot_short_perp(m, id, is_perp_in_long) ==
    << Order(id, spot_connector, TRUE,
             limit_taker_price_with_slippage(m, spot_connector, TRUE), "NIL"),
       Order(id + 1, perp_connector, FALSE,
             limit_taker_price_with_slippage(m, perp_connector, FALSE),
             PositionActionOf(is_perp_in_long)) >>

\* sell_spot_long_perp submitting the spot order first
sell_spot_long_perp_SpotFirst(m, id, is_perp_in_short) ==
    << Order(id, spot_connector, FALSE,
             limit_taker_price_with_slippage(m, spot_connector, FALSE), "NIL"),
       Order(id + 1, perp_connector, TRUE,
             limit_taker_price_with_slippage(m, perp_connector, TRUE),
             PositionActionOf(is_perp_in_short)) >>

\* sell_spot_long_perp, lines 263-298: the orders it submits, in order
sell_spot_long_perp(m, id, is_perp_in_short) ==
    << Order(id, perp_connector, TRUE,
             limit_taker_price_with_slippage(m, perp_connector, TRUE),
             PositionActionOf(is_perp_in_short)),
       Order(id + 1, spot_connector, FALSE,
             limit_taker_price_with_slippage(m, spot_connector, FALSE), "NIL") >>

\* ---------------------------------------------------------------- on_tick
\* What one call of on_tick leaves behind: the strategy's fields and the log
\* of the call (the path it took and the warnings it logged).
Outcome(s, path, warnings) ==
    [self |-> s, log |-> [path |-> path, warnings |-> warnings]]

\* lines 108-115, entered with the state s left by the checks before it
FindOpportunityAndTrade(s, now, m, warnings) ==
    IF should_buy_spot_short_perp_raises(m)
    THEN Outcome(s, "raised", warnings)
    ELSE IF should_buy_spot_short_perp(m) /\ can_buy_spot_short_perp(m)
    THEN Outcome(update_static_state([s EXCEPT !.last_submit_order_ts = now], now),
                 "buy_spot_short_perp", warnings)
    ELSE IF should_sell_spot_long_perp_raises(m)
    THEN Outcome(s, "raised", warnings)
    ELSE IF should_sell_spot_long_perp(m) /\ can_sell_spot_long_perp(m)
    THEN Outcome(update_static_state([s EXCEPT !.last_submit_order_ts = now], now),
                 "sell_spot_long_perp", warnings)
    ELSE Outcome(s, "idle", warnings)

\* on_tick after the precheck, lines 77-115
TradingLogic(s0, now, m) ==
    LET s == update_in_flight_state(s0, now)
    IN  IF IsInFlight(s.strategy_state)
        THEN Outcome(s, "in_flight",
                     IF InFlightTooLong(s, now) THEN {"in_flight_too_long"} ELSE {})
        ELSE IF InReopenCooldown(s, now)
        THEN Outcome(s, "cooldown", {})
        ELSE FindOpportunityAndTrade(s, now, m,
                     IF OpenedTooLong(s, now) THEN {"opened_too_long"} ELSE {})

PrecheckPasses_Always(ready) == TRUE

\* the precheck of lines 74-75
PrecheckPasses(ready) == ready

\* the orders the call submits on its path (lines 111, 114)
OrdersOf(path, m, id, is_perp_in_long, is_perp_in_short) ==
    IF path = "buy_spot_short_perp" THEN buy_spot_short_perp(m, id, is_perp_in_long)
    ELSE IF path = "sell_spot_long_perp" THEN sell_spot_long_perp(m, id, is_perp_in_short)
    ELSE << >>

Submits(path) == path \in {"buy_spot_short_perp", "sell_spot_long_perp"}
ReadsMarket(path) == path \in {"buy_spot_short_perp", "sell_spot_long_perp", "raised", "idle"}

TickSteps == {1}

NoLog == [path |-> "none", warnings |-> {}]

\* One call of on_tick (lines 72-115) by a clock whose period is one of
\* `steps`, up to the time `horizon`, with the venues showing one of `markets`.
Tick(steps, horizon, markets) ==
    \E dt \in steps, m \in markets :
        LET now == current_timestamp + dt
            out == IF PrecheckPasses(is_position_mode_ready)
                   THEN TradingLogic(Self, now, m)
                   ELSE Outcome(Self, "not_ready", {})
        IN  /\ now <= horizon
            /\ Submits(out.log.path) => next_order_id + 1 <= MaxOrders
            /\ current_timestamp' = now
            /\ market' = IF ReadsMarket(out.log.path) THEN m ELSE market
            /\ strategy_state' = out.self.strategy_state
            /\ completed_order_ids' = out.self.completed_order_ids
            /\ next_arbitrage_opening_ts' = out.self.next_arbitrage_opening_ts
            /\ in_flight_state_start_ts' = out.self.in_flight_state_start_ts
            /\ opened_state_start_ts' = out.self.opened_state_start_ts
            /\ last_submit_order_ts' = out.self.last_submit_order_ts
            /\ tick_log' = out.log
            /\ IF Submits(out.log.path)
               THEN \E is_perp_in_long \in BOOLEAN, is_perp_in_short \in BOOLEAN :
                        /\ legs' = OrdersOf(out.log.path, m, next_order_id,
                                            is_perp_in_long, is_perp_in_short)
                        /\ next_order_id' = next_order_id + Len(legs')
               ELSE UNCHANGED << legs, next_order_id >>
            /\ UNCHANGED << is_position_mode_ready, position_mode_ready_attr,
                            reports_faithful >>

\* on_tick, lines 72-115, called by the clock every second
on_tick == Tick(TickSteps, MaxTime, Markets)

\* on_tick under a clock whose period is one minute or a second more: the
\* call reads only current_timestamp (lines 82, 92, 98), so the in-flight
\* tolerance of line 54 is met exactly (60 s) or exceeded (61 s and more).
SlowClockSteps == {in_flight_state_tolerance, in_flight_state_tolerance + 1}

on_tick_slow_clock == Tick(SlowClockSteps, MaxSlowTime, SlowClockMarkets)

\* -------------------------------------------------------------- callbacks
\* The order ids a completion event can carry: a leg of the latest submission
\* of the given side, or the id of an order that is none of them.
CompletableIds(is_buy) ==
    {ForeignOrderId} \cup {legs[i].order_id : i \in {j \in DOMAIN legs : legs[j].is_buy = is_buy}}

\* lines 387 and 390: the record after the event's order id is appended
RecordCompletion(ids, order_id) == Append(ids, order_id)

\* the event is the first report of a leg of the submission in flight
IsFirstReportOfLegInFlight(order_id) ==
    /\ strategy_state \in {Opening, Closing}
    /\ order_id \in {legs[i].order_id : i \in DOMAIN legs}
    /\ order_id \notin {completed_order_ids[i] : i \in DOMAIN completed_order_ids}

OrderCompleted(order_id) ==
    /\ Len(completed_order_ids) < MaxCompleted
    /\ completed_order_ids' = RecordCompletion(completed_order_ids, order_id)
    /\ reports_faithful' = (reports_faithful /\ IsFirstReportOfLegInFlight(order_id))
    /\ UNCHANGED << is_position_mode_ready, position_mode_ready_attr, strategy_state,
                    next_arbitrage_opening_ts, in_flight_state_start_ts,
                    opened_state_start_ts, last_submit_order_ts, current_timestamp,
                    market, next_order_id, legs, tick_log >>

\* did_complete_buy_order, lines 386-387
did_complete_buy_order ==
    \E order_id \in CompletableIds(TRUE) : OrderCompleted(order_id)

\* did_complete_sell_order, lines 389-390
did_complete_sell_order ==
    \E order_id \in CompletableIds(FALSE) : OrderCompleted(order_id)

\* did_change_position_mode_succeed, lines 392-396
did_change_position_mode_succeed ==
    /\ position_mode_ready_attr' = TRUE
    /\ UNCHANGED << is_position_mode_ready, strategy_state, completed_order_ids,
                    next_arbitrage_opening_ts, in_flight_state_start_ts,
                    opened_state_start_ts, last_submit_order_ts, current_timestamp,
                    market, next_order_id, legs, tick_log, reports_faithful >>

\* did_change_position_mode_fail, lines 398-407
did_change_position_mode_fail ==
    /\ UNCHANGED vars

\* ---------------------------------------------------------- specification
\* The class attributes of lines 39-56.  is_position_mode_ready is False as
\* shipped; it is a class attribute like the other settings of the script, and
\* the trading logic of on_tick runs only where it has been set to True.
Init ==
    /\ is_position_mode_ready \in BOOLEAN
    /\ position_mode_ready_attr = FALSE
    /\ strategy_state = Closed
    /\ completed_order_ids = << >>
    /\ next_arbitrage_opening_ts = 0
    /\ in_flight_state_start_ts = 0
    /\ opened_state_start_ts = 0
    /\ last_submit_order_ts = Unset
    /\ current_timestamp = 0
    /\ market = NoMarket
    /\ next_order_id = 1
    /\ legs = << >>
    /\ tick_log = NoLog
    /\ reports_faithful = TRUE

Next ==
    \/ on_tick
    \/ did_complete_buy_order
    \/ did_complete_sell_order
    \/ did_change_position_mode_succeed
    \/ did_change_position_mode_fail

Spec == Init /\ [][Next]_vars

\* The same program under the slow clock.
NextSlowClock ==
    \/ on_tick_slow_clock
    \/ did_complete_buy_order
    \/ did_complete_sell_order
    \/ did_change_position_mode_succeed
    \/ did_change_position_mode_fail

SpecSlowClock == Init /\ [][NextSlowClock]_vars

\* The script as shipped: is_position_mode_ready is False (line 40).  The
\* clock may have either period.
InitShipped ==
    /\ Init
    /\ is_position_mode_ready = FALSE

NextAnyClock ==
    \/ Next
    \/ on_tick_slow_clock

SpecShipped == InitShipped /\ [][NextAnyClock]_vars

\* ------------------------------------------------------------ claim terms
Range(seq) == {seq[i] : i \in DOMAIN seq}

\* a step that is one call of on_tick (the clock moves only there)
IsTick == current_timestamp' > current_timestamp

\* the lifecycle state a tick finds after its completion check (line 78)
StateAfterCompletionCheck ==
    IF is_position_mode_ready
    THEN update_in_flight_state(Self, current_timestamp').strategy_state
    ELSE strategy_state

SubmittedByStep == next_order_id' - next_order_id

LegIds(orders) == {orders[i].order_id : i \in DOMAIN orders}

IsBuySpotShortPerpPair(orders) ==
    /\ Len(orders) = 2
    /\ orders[1].connector = spot_connector /\ orders[1].is_buy
    /\ orders[2].connector = perp_connector /\ ~orders[2].is_buy

IsSellSpotLongPerpPair(orders) ==
    /\ Len(orders) = 2
    /\ orders[1].connector = perp_connector /\ orders[1].is_buy
    /\ orders[2].connector = spot_connector /\ ~orders[2].is_buy

\* The opportunity tests written out from spec sections 4.1 and 4.2 on one
\* market reading, for positive prices.
BuySpotShortPerpPays(m) ==
    /\ m.spot_buy > 0
    /\ (m.perp_sell - m.spot_buy) * 10000 >= 20 * m.spot_buy
    /\ m.spot_quote >= m.spot_buy * 10005 * 100
    /\ m.perp_quote >= m.perp_sell * 10000 * 100

SellSpotLongPerpPays(m) ==
    /\ m.perp_buy > 0
    /\ (m.spot_sell - m.perp_buy) * 10000 >= 20 * m.perp_buy
    /\ m.spot_base >= 100
    /\ m.perp_quote >= m.perp_buy * 10000 * 100

\* the legs in flight are those of the direction the specification gives the
\* state: an opening by buy-spot-short-perp, a closing by sell-spot-long-perp
LegsMatchState(state, orders) ==
    /\ state = Opening => IsBuySpotShortPerpPair(orders)
    /\ state = Closing => IsSellSpotLongPerpPair(orders)

ScenarioA == Mk(2000, 2000, 2000, 2005, Rich, 100, Rich)

C2_NoSubmissionWhileInFlight ==
    [][ (IsTick /\ is_position_mode_ready
            /\ StateAfterCompletionCheck \in {Opening, Closing})
            => /\ SubmittedByStep = 0
               /\ legs' = legs
               /\ strategy_state' = StateAfterCompletionCheck
               /\ in_flight_state_start_ts' = in_flight_state_start_ts ]_vars

\* a tick has just returned at line 88 with one of two legs reported
C2_Witness ==
    /\ tick_log.path = "in_flight"
    /\ strategy_state = Opening
    /\ Len(completed_order_ids) = 1
    /\ Len(legs) = 2

\* ------------------------------------------------------------------ C3
\* C3: every tick submits zero or two orders; it submits two exactly when it
\* moves the state Flat -> Opening or Hedged -> Closing; the two are one spot
\* and one perpetual order of one direction; and when buy-spot-short-perp
\* triggers, it is the direction traded even if sell-spot-long-perp pays too.
C3_TwoLegsExactlyOnTransition ==
    [][ IsTick =>
          LET mid == StateAfterCompletionCheck
              moved == strategy_state' # mid
          IN  /\ SubmittedByStep \in {0, 2}
              /\ (SubmittedByStep = 2) <=> moved
              /\ moved => \/ (mid = Closed /\ strategy_state' = Opening)
                          \/ (mid = Opened /\ strategy_state' = Closing)
              /\ moved => /\ LegIds(legs') = {next_order_id, next_order_id + 1}
                          /\ \/ IsBuySpotShortPerpPair(legs')
                             \/ IsSellSpotLongPerpPair(legs')
              /\ (moved /\ BuySpotShortPerpPays(market'))
                     => IsBuySpotShortPerpPair(legs') ]_vars

\* a tick has just traded buy-spot-short-perp on a reading where both
\* directions pay
C3_Witness ==
    /\ tick_log.path = "buy_spot_short_perp"
    /\ strategy_state = Opening
    /\ in_flight_state_start_ts = current_timestamp
    /\ BuySpotShortPerpPays(market) /\ SellSpotLongPerpPays(market)
    /\ IsBuySpotShortPerpPair(legs)
    /\ next_order_id = 3

C6_AtMostTwoCompletions ==
    /\ Len(completed_order_ids) <= 2

FourEdges ==
    { <<Closed, Opening>>, <<Opening, Opened>>, <<Opened, Closing>>, <<Closing, Closed>> }

C9_ProfitableFeasibleFlatOpens ==
    [][ (IsTick /\ is_position_mode_ready /\ strategy_state = Closed
            /\ current_timestamp' >= next_arbitrage_opening_ts
            /\ BuySpotShortPerpPays(market'))
            => /\ strategy_state' = Opening
               /\ SubmittedByStep = 2
               /\ IsBuySpotShortPerpPair(legs')
               /\ in_flight_state_start_ts' = current_timestamp' ]_vars

\* scenario A has just been traded: 1.0000 against 1.0025 at 20 bps
C9_Witness ==
    /\ tick_log.path = "buy_spot_short_perp"
    /\ market = ScenarioA
    /\ strategy_state = Opening
    /\ IsBuySpotShortPerpPair(legs)
    /\ in_flight_state_start_ts = current_timestamp
    /\ opened_state_start_ts = 0

BuySpotShortPerpProfitable(m) ==
    m.spot_buy > 0 /\ (m.perp_sell - m.spot_buy) * 10000 >= 20 * m.spot_buy

BuySpotShortPerpFunded(m) ==
    /\ m.spot_quote >= m.spot_buy * 10005 * 100
    /\ m.perp_quote >= m.perp_sell * 10000 * 100

SellSpotLongPerpFunded(m) ==
    /\ m.spot_base >= 100
    /\ m.perp_quote >= m.perp_buy * 10000 * 100

C15_NoTradingBeforeModeSuccess ==
    [][ /\ (IsTick /\ ~position_mode_ready_attr)
            => /\ tick_log'.path = "not_ready"
               /\ SubmittedByStep = 0
               /\ UNCHANGED << market, legs, strategy_state, completed_order_ids,
                               next_arbitrage_opening_ts, in_flight_state_start_ts,
                               opened_state_start_ts, last_submit_order_ts >>
        /\ is_position_mode_ready' = is_position_mode_ready ]_vars

\* a tick has returned at the precheck, no success having been notified
C15_Witness ==
    /\ tick_log.path = "not_ready"
    /\ ~position_mode_ready_attr
    /\ ~is_position_mode_ready
    /\ current_timestamp > 0
    /\ strategy_state = Closed
    /\ last_submit_order_ts = Unset

\* ------------------------------------------------------------------ C16
\* C16: the perpetual order of a pair submitted from Closed (Flat->Opening)
\* carries the position action OPEN and the perpetual order of a pair
\* submitted from Opened (Hedged->Closing) carries CLOSE.  (Stated of runs
\* where each leg was reported once and where is_perp_in_long and
\* is_perp_in_short, which the submission reads, told the side of the
\* perpetual position that the orders submitted before had built.)
PerpLeg(orders) == orders[CHOOSE i \in DOMAIN orders : orders[i].connector = perp_connector]

\* the action a submission gives its perpetual order when the flag it reads
\* tells the position truly: CLOSE against a held position of the other side
PerpActionOfTrueFlags(state, held, submitted) ==
    IF state = Opened /\ Len(held) = 2
            /\ PerpLeg(held).is_buy # PerpLeg(submitted).is_buy
    THEN "CLOSE" ELSE "OPEN"

SellSpotLongPerpProfitable(m) ==
    m.perp_buy > 0 /\ (m.spot_sell - m.perp_buy) * 10000 >= 20 * m.perp_buy

C17_ProfitableIffSpreadAtLeastMargin ==
    [][ (IsTick /\ is_position_mode_ready /\ ReadsMarket(tick_log'.path)
            /\ market'.spot_buy > 0 /\ market'.perp_buy > 0)
            => /\ tick_log'.path = "buy_spot_short_perp"
                   <=> (BuySpotShortPerpProfitable(market')
                            /\ BuySpotShortPerpFunded(market'))
               /\ tick_log'.path = "sell_spot_long_perp"
                   <=> /\ ~(BuySpotShortPerpProfitable(market')
                                /\ BuySpotShortPerpFunded(market'))
                       /\ SellSpotLongPerpProfitable(market')
                       /\ SellSpotLongPerpFunded(market') ]_vars

\* a tick has just submitted the sell-spot-long-perp pair on a reading whose
\* spread is exactly the margin of 20 bps
C17_Witness ==
    /\ tick_log.path = "sell_spot_long_perp"
    /\ IsSellSpotLongPerpPair(legs)
    /\ market.perp_buy > 0
    /\ (market.spot_sell - market.perp_buy) * 10000 = 20 * market.perp_buy
    /\ (market.perp_sell - market.spot_buy) * 10000 < 20 * market.spot_buy

\* ------------------------------------------------------------------ C18
\* C18: a tick that submits, submits two orders one after the other: for
\* buy-spot-short-perp the spot buy and then the perpetual sell, for
\* sell-spot-long-perp the perpetual buy and then the spot sell; and the call
\* returns with the state in flight and neither order reported completed.
C18_LegOrderFixed ==
    [][ (IsTick /\ SubmittedByStep > 0)
            => /\ SubmittedByStep = 2
               /\ Len(legs') = 2
               /\ legs'[1].order_id = next_order_id
               /\ legs'[2].order_id = next_order_id + 1
               /\ tick_log'.path \in {"buy_spot_short_perp", "sell_spot_long_perp"}
               /\ tick_log'.path = "buy_spot_short_perp"
                   => /\ legs'[1].connector = spot_connector /\ legs'[1].is_buy
                      /\ legs'[2].connector = perp_connector /\ ~legs'[2].is_buy
               /\ tick_log'.path = "sell_spot_long_perp"
                   => /\ legs'[1].connector = perp_connector /\ legs'[1].is_buy
                      /\ legs'[2].connector = spot_connector /\ ~legs'[2].is_buy
               /\ strategy_state' \in {Opening, Closing}
               /\ LegIds(legs') \cap Range(completed_order_ids') = {} ]_vars

\* a tick has just submitted the perpetual buy and then the spot sell and
\* returned, neither of them reported
C18_Witness ==
    /\ tick_log.path = "sell_spot_long_perp"
    /\ Len(legs) = 2
    /\ legs[1].connector = perp_connector /\ legs[1].is_buy
    /\ legs[2].connector = spot_connector /\ ~legs[2].is_buy
    /\ legs[1].order_id + 1 = legs[2].order_id
    /\ legs[2].order_id + 1 = next_order_id
    /\ strategy_state = Closing
    /\ last_submit_order_ts = current_timestamp
    /\ LegIds(legs) \cap Range(completed_order_ids) = {}

C20_SuccessOpensThePrecheck ==
    [][ /\ position_mode_ready_attr' => is_position_mode_ready'
        /\ (IsTick /\ position_mode_ready_attr)
            => tick_log'.path # "not_ready" ]_vars

====
